---------------------------- MODULE Spec2Model ----------------------------
(***************************************************************************)
(* A model of gophish_report.py: the event correlation and enrichment      *)
(* pipeline that turns a GoPhish CSV export into the recipient view, the   *)
(* source-address view, the credential table and the campaign statistics.  *)
(*                                                                         *)
(* The script is a straight-line program; pc names the statement (or the   *)
(* loop) that runs next and i is the position of a loop in its sequence.   *)
(* One action models one loop iteration or one block of statements.       *)
(*                                                                         *)
(* Python values are encoded as follows.                                   *)
(*   - str is a TLA+ string; None (and pandas NaN in an object column) is  *)
(*     the value None, a string no sampled text equals.                    *)
(*   - a JSON value inside "payload" is a record [t, s, l]: t is the type  *)
(*     ("str", "list", "num", "null"), s the text of a string or the       *)
(*     literal of a number, l the elements of a list.                      *)
(*   - a list of (name, value) tuples that may be None is a record         *)
(*     [none, items].                                                      *)
(*   - a dict is a function whose DOMAIN is its key set.                   *)
(***************************************************************************)
EXTENDS Integers, Sequences, FiniteSets, TLC

(* The largest number of rows of the CSV export. *)
MaxRows == 2

None == "<None>"

(* Python truth value of a str-or-None: None and "" are false. *)
Truthy(x) == x # None /\ x # ""

(* str.startswith(p) *)
StartsWith(s, p) == Len(p) <= Len(s) /\ SubSeq(s, 1, Len(p)) = p

(* The prefix tuple with its first entry lost. *)
PRIVATE_IP_PREFIXES_short ==
    { "172.16.", "172.17.", "172.18.", "172.19.", "172.20.", "172.21.",
      "172.22.", "172.23.", "172.24.", "172.25.", "172.26.", "172.27.",
      "172.28.", "172.29.", "172.30.", "172.31.", "192.168.", "127.",
      "169.254.", "::1" }

PRIVATE_IP_PREFIXES ==
    { "10.", "172.16.", "172.17.", "172.18.", "172.19.", "172.20.", "172.21.",
      "172.22.", "172.23.", "172.24.", "172.25.", "172.26.", "172.27.",
      "172.28.", "172.29.", "172.30.", "172.31.", "192.168.", "127.",
      "169.254.", "::1" }

(* ip.startswith(PRIVATE_IP_PREFIXES) *)
IsPrivate(ip) == \E p \in PRIVATE_IP_PREFIXES : StartsWith(ip, p)

FunnelEvents == {"Email Sent", "Email Opened", "Clicked Link", "Submitted Data"}

-----------------------------------------------------------------------------
(* JSON values of the payload object. *)
JStr(s)  == [t |-> "str",  s |-> s,  l |-> <<>>]
JList(l) == [t |-> "list", s |-> "", l |-> l]
JNum(s)  == [t |-> "num",  s |-> s,  l |-> <<>>]
JNull    == [t |-> "null", s |-> "", l |-> <<>>]

(* The "browser" member: absent, null, or an object with optional members. *)
NoBrowser      == [t |-> "absent", address |-> None, ua |-> None]
NullBrowser    == [t |-> "null",   address |-> None, ua |-> None]
Browser(a, u)  == [t |-> "obj",    address |-> a,    ua |-> u]

(* The "payload" member: absent, null, an object (its items in document   *)
(* order, names distinct), or some other JSON value.                       *)
NoPayload      == [t |-> "absent", items |-> <<>>]
NullPayload    == [t |-> "null",   items |-> <<>>]
OtherPayload   == [t |-> "other",  items |-> <<>>]
Payload(items) == [t |-> "obj",    items |-> items]

(* The details cell of a row: NaN (empty cell), blank text, text that is  *)
(* not JSON, JSON that is not an object, or a JSON object.                 *)
NaNDetails     == [kind |-> "nan",    browser |-> NoBrowser, payload |-> NoPayload]
BlankDetails   == [kind |-> "blank",  browser |-> NoBrowser, payload |-> NoPayload]
BadText        == [kind |-> "text",   browser |-> NoBrowser, payload |-> NoPayload]
NonObject      == [kind |-> "nonobj", browser |-> NoBrowser, payload |-> NoPayload]
Object(b, p)   == [kind |-> "obj",    browser |-> b,         payload |-> p]

CredsNone      == [none |-> TRUE,  items |-> <<>>]
CredsList(l)   == [none |-> FALSE, items |-> l]

-----------------------------------------------------------------------------
(* The rows the CSV export is drawn from.  Each sample is (email, event,   *)
(* details); the id and timestamp columns are filled in by Init.           *)

UA1 == "Mozilla/5.0"
UA2 == "curl/8.0"

Sample(email, event, details) ==
    [email |-> email, event |-> event, details |-> details]

RowSamples ==
    { Sample("a@x.io", "Email Sent", NaNDetails),
      Sample("a@x.io", "Email Opened",
             Object(Browser("8.8.8.8", UA1), Payload(<< <<"client_id", JList(<<"x", "y">>)>> >>))),
      Sample("a@x.io", "Clicked Link",
             Object(Browser("10.0.0.5", UA1), Payload(<< <<"client_id", JList(<<"x">>)>> >>))),
      Sample("a@x.io", "Submitted Data",
             Object(Browser("8.8.8.8", UA1),
                    Payload(<< <<"username", JStr("a")>>, <<"password", JStr("b")>>,
                               <<"client_id", JList(<<"x">>)>> >>))),
      Sample("a@x.io", "Error Sending Email", BadText),
      Sample("a@x.io", "Email Opened", NonObject),
      Sample("a@x.io", "Submitted Data", BlankDetails),
      Sample("b@x.io", "Email Sent", NaNDetails),
      Sample("b@x.io", "Email Opened",
             Object(Browser("172.32.0.1", None), NoPayload)),
      Sample("b@x.io", "Clicked Link",
             Object(Browser("8.8.8.8", UA2), Payload(<< <<"client_id", JStr("zz")>> >>))),
      Sample("b@x.io", "Submitted Data",
             Object(Browser("172.32.0.1", UA2),
                    Payload(<< <<"username", JList(<<"c", "d">>)>>, <<"otp", JNum("7")>> >>))),
      Sample("b@x.io", "Submitted Data",
             Object(NoBrowser, Payload(<< <<"client_id", JNull>>, <<"password", JStr("b")>> >>))),
      Sample("b@x.io", "Submitted Data",
             Object(Browser("192.168.1.9", UA1), Payload(<< <<"client_id", JList(<<>>)>> >>))),
      Sample("b@x.io", "Email Opened",
             Object(NullBrowser, Payload(<< <<"client_id", JList(<<"x">>)>> >>))),
      Sample(" ", "Clicked Link", Object(Browser("", UA1), Payload(<<>>))),
      Sample("b@x.io", "Clicked Link", Object(Browser("127.0.0.1", UA2), NoPayload)),
      Sample("a@x.io", "Email Opened", Object(Browser("::1", None), Payload(<<>>))),
      Sample("b@x.io", "Email Opened", Object(Browser("172.16.0.9", UA1), NoPayload)),
      Sample(None, "Email Sent", NaNDetails),
      Sample("b@x.io", "Clicked Link", Object(Browser("8.8.8.8", UA1), NullPayload)),
      Sample("a@x.io", "Clicked Link", Object(Browser("172.32.0.1", UA1), OtherPayload)),
      Sample("a@x.io", "Clicked Link",
             Object(Browser("192.168.1.9", UA2), Payload(<< <<"client_id", JNum("5")>> >>))),
      Sample("a@x.io", "Submitted Data",
             Object(Browser("172.32.0.1", UA1), Payload(<< <<"password", JList(<<>>)>> >>))) }

(* What the geolocation service may do with one request: answer 200 with a *)
(* body, answer another status, or fail in transport (exception/timeout).  *)
Response(status, city, region, country, org) ==
    [status |-> status, city |-> city, region |-> region, country |-> country, org |-> org]

Responses ==
    { Response(200, "Mountain View", "California", "US", "AS15169 Google LLC"),
      Response(200, None, "", None, None),
      Response(429, None, None, None, None),
      Response(0, None, None, None, None) }

(* status 0 stands for requests.get raising. *)
Raises(r) == r.status = 0

-----------------------------------------------------------------------------
VARIABLES
    raw,               \* the rows of the CSV file, as read_csv returns them
    df,                \* the data frame after the email filter
    pc,                \* the statement that runs next
    i,                 \* position of the running loop
    ip_list, ua_list, client_id_list, submitted_creds,
    df_ip, df_user_agent, df_client_id, df_credentials,   \* the four added columns
    geo_cache,
    requests,          \* the addresses requests.get was called for, in call order
    returned,          \* every (argument, result) pair lookup_ip has returned
    users,
    stats,
    fieldnames,
    credentials_rows,
    ip_cred_map,
    ip_activity

vars == << raw, df, pc, i, ip_list, ua_list, client_id_list, submitted_creds,
           df_ip, df_user_agent, df_client_id, df_credentials, geo_cache,
           requests, returned, users, stats, fieldnames, credentials_rows,
           ip_cred_map, ip_activity >>

lists   == << ip_list, ua_list, client_id_list, submitted_creds >>
columns == << df_ip, df_user_agent, df_client_id, df_credentials >>
geo     == << geo_cache, requests, returned >>
views   == << users, stats, fieldnames, credentials_rows, ip_cred_map, ip_activity >>

NoStats ==
    [ total_targets |-> 0, sent_count |-> 0, open_count |-> 0, click_count |-> 0,
      submit_count |-> 0, users_opened_only |-> 0, users_opened_and_clicked |-> 0,
      users_opened_clicked_submitted |-> 0 ]

(* Row n of the file: the sample with its id and its timestamp, here the   *)
(* n-th instant, so that a row is known by its timestamp.                  *)
RawRow(n, s) ==
    [id |-> n, email |-> s.email, timestamp |-> n, event |-> s.event, details |-> s.details]

Init ==
    /\ \E n \in 0..MaxRows : \E f \in [1..n -> RowSamples] :
          raw = [k \in 1..n |-> RawRow(k, f[k])]
    /\ df = <<>>
    /\ pc = "read_csv"
    /\ i = 1
    /\ ip_list = <<>> /\ ua_list = <<>> /\ client_id_list = <<>> /\ submitted_creds = <<>>
    /\ df_ip = <<>> /\ df_user_agent = <<>> /\ df_client_id = <<>> /\ df_credentials = <<>>
    /\ geo_cache = <<>>
    /\ requests = <<>>
    /\ returned = {}
    /\ users = <<>>
    /\ stats = NoStats
    /\ fieldnames = <<>>
    /\ credentials_rows = <<>>
    /\ ip_cred_map = <<>>
    /\ ip_activity = <<>>

(* df = pd.read_csv(...); df = df[df["email"].notnull()] *)
NotNullEmail(r) == r.email # None

ReadCsv ==
    /\ pc = "read_csv"
    /\ df' = SelectSeq(raw, NotNullEmail)
    /\ pc' = "extract"
    /\ i' = 1
    /\ UNCHANGED << raw, lists, columns, geo, views >>

-----------------------------------------------------------------------------
(* The details extraction loop. *)

(* dict.get(k, default) over the items of the payload object *)
HasKey(items, k) == \E n \in 1..Len(items) : items[n][1] = k
GetItem(items, k) == items[CHOOSE n \in 1..Len(items) : items[n][1] = k][2]

(* Python truth value of a JSON value *)
JTruthy(v) ==
    CASE v.t = "str"  -> v.s # ""
      [] v.t = "list" -> v.l # <<>>
      [] v.t = "num"  -> v.s \notin {"0", "0.0"}
      [] OTHER        -> FALSE

(* client_ids[0]: raises for a value that cannot be indexed *)
IndexRaises(v) == v.t = "num"
FirstOf(v) == IF v.t = "list" THEN v.l[1] ELSE SubSeq(v.s, 1, 1)

(* [(k, v[0] if isinstance(v, list) else v) for k, v in payload.items()    *)
(*  if k != "client_id"]                                                   *)
IsField(item) == item[1] # "client_id"
(* The comprehension without the v[0]: a list is kept whole. *)
ExtractOne_whole(item) == << item[1], item[2] >>

ExtractOne(item) ==
    << item[1], IF item[2].t = "list" THEN JStr(item[2].l[1]) ELSE item[2] >>
ExtractRaises(items) ==
    \E n \in 1..Len(items) :
        IsField(items[n]) /\ items[n][2].t = "list" /\ items[n][2].l = <<>>
Extracted(items) ==
    LET fs == SelectSeq(items, IsField)
    IN  [n \in 1..Len(fs) |-> ExtractOne(fs[n])]

(* The appends the try block makes for a row before it completes or       *)
(* raises; raised tells which.                                             *)
Appends(a, u, c, s, raised) ==
    [ip |-> a, ua |-> u, cid |-> c, creds |-> s, raised |-> raised]

TryBlock(row) ==
    LET d == row.details
        b == d.browser
        p == d.payload
        items == p.items
        cidv == IF HasKey(items, "client_id") THEN GetItem(items, "client_id") ELSE JList(<<>>)
    IN  IF d.kind # "obj" \/ b.t = "null"
        THEN Appends(<<>>, <<>>, <<>>, <<>>, TRUE)
        ELSE IF p.t \in {"null", "other"} \/ (JTruthy(cidv) /\ IndexRaises(cidv))
        THEN Appends(<<b.address>>, <<b.ua>>, <<>>, <<>>, TRUE)
        ELSE LET cid == IF JTruthy(cidv) THEN FirstOf(cidv) ELSE None
             IN  IF row.event # "Submitted Data"
                 THEN Appends(<<b.address>>, <<b.ua>>, <<cid>>, <<CredsNone>>, FALSE)
                 ELSE IF ExtractRaises(items)
                 THEN Appends(<<b.address>>, <<b.ua>>, <<cid>>, <<>>, TRUE)
                 ELSE Appends(<<b.address>>, <<b.ua>>, <<cid>>,
                              <<CredsList(Extracted(items))>>, FALSE)

(* One iteration of the loop: the early continue for an empty cell, the    *)
(* try block, and the except clause when the try block raised.             *)
ExtractRow ==
    /\ pc = "extract"
    /\ i <= Len(df)
    /\ LET row == df[i]
           r == TryBlock(row)
           h == IF r.raised THEN <<None>> ELSE <<>>
           hc == IF r.raised THEN <<CredsNone>> ELSE <<>>
       IN  IF row.details.kind \in {"nan", "blank"}
           THEN /\ ip_list' = Append(ip_list, None)
                /\ ua_list' = Append(ua_list, None)
                /\ client_id_list' = Append(client_id_list, None)
                /\ submitted_creds' = Append(submitted_creds, CredsNone)
           ELSE /\ ip_list' = ip_list \o r.ip \o h
                /\ ua_list' = ua_list \o r.ua \o h
                /\ client_id_list' = client_id_list \o r.cid \o h
                /\ submitted_creds' = submitted_creds \o r.creds \o hc
    /\ i' = i + 1
    /\ UNCHANGED << raw, df, pc, columns, geo, views >>

(* df["ip"] = ip_list ... df["credentials"] = submitted_creds: pandas      *)
(* raises ValueError when a list is not as long as the frame.              *)
AssignColumns ==
    /\ pc = "extract"
    /\ i > Len(df)
    /\ IF Len(ip_list) # Len(df)
       THEN /\ pc' = "crashed"
            /\ UNCHANGED columns
       ELSE IF Len(ua_list) # Len(df)
       THEN /\ pc' = "crashed"
            /\ df_ip' = ip_list
            /\ UNCHANGED << df_user_agent, df_client_id, df_credentials >>
       ELSE IF Len(client_id_list) # Len(df)
       THEN /\ pc' = "crashed"
            /\ df_ip' = ip_list /\ df_user_agent' = ua_list
            /\ UNCHANGED << df_client_id, df_credentials >>
       ELSE IF Len(submitted_creds) # Len(df)
       THEN /\ pc' = "crashed"
            /\ df_ip' = ip_list /\ df_user_agent' = ua_list /\ df_client_id' = client_id_list
            /\ UNCHANGED df_credentials
       ELSE /\ pc' = "ip_lookups"
            /\ df_ip' = ip_list /\ df_user_agent' = ua_list
            /\ df_client_id' = client_id_list /\ df_credentials' = submitted_creds
    /\ i' = 1
    /\ UNCHANGED << raw, df, lists, geo, views >>

-----------------------------------------------------------------------------
(* The geolocation resolver. *)

NA            == << "N/A", "N/A" >>
PrivateGeo    == << "Private/Reserved", "Private/Reserved" >>
LookupFailed  == << "Lookup Failed", "N/A" >>

(* ", ".join(parts) *)
RECURSIVE Join(_)
Join(parts) ==
    IF parts = <<>> THEN ""
    ELSE IF Len(parts) = 1 THEN parts[1]
    ELSE parts[1] \o ", " \o Join(Tail(parts))

(* The value lookup_ip caches for a public address, given what the service *)
(* did with the request.                                                   *)
Resolve(r) ==
    IF Raises(r) \/ r.status # 200
    THEN LookupFailed
    ELSE LET parts == SelectSeq(<< r.city, r.region, r.country >>, Truthy)
             joined == Join(parts)
         IN  << IF joined # "" THEN joined ELSE "Unknown",
                IF r.org = None THEN "" ELSE r.org >>

(* cache[ip] = v *)
Store(cache, ip, v) ==
    [k \in DOMAIN cache \cup {ip} |-> IF k = ip THEN v ELSE cache[k]]

(* lookup_ip that caches a failed lookup nowhere, so that it is retried. *)
lookup_ip_retry(cache, ip, r) ==
    IF ip \in DOMAIN cache
    THEN [cache |-> cache, result |-> cache[ip], req |-> <<>>]
    ELSE IF ~Truthy(ip) \/ IsPrivate(ip)
    THEN LET v == IF Truthy(ip) THEN PrivateGeo ELSE NA
         IN  [cache |-> Store(cache, ip, v), result |-> v, req |-> <<>>]
    ELSE LET v == Resolve(r)
         IN  [cache |-> IF v = LookupFailed THEN cache ELSE Store(cache, ip, v),
              result |-> v, req |-> <<ip>>]

(* lookup_ip without the test of the cache: every call for a public       *)
(* address resolves again and overwrites the entry.                        *)
lookup_ip_uncached(cache, ip, r) ==
    IF ~Truthy(ip) \/ IsPrivate(ip)
    THEN LET v == IF Truthy(ip) THEN PrivateGeo ELSE NA
         IN  [cache |-> Store(cache, ip, v), result |-> v, req |-> <<>>]
    ELSE LET v == Resolve(r)
         IN  [cache |-> Store(cache, ip, v), result |-> v, req |-> <<ip>>]

(* lookup_ip(ip) run on cache, r being the service's answer should a       *)
(* request be issued: the cache afterwards, the value returned and the     *)
(* requests issued.                                                        *)
lookup_ip(cache, ip, r) ==
    IF ip \in DOMAIN cache
    THEN [cache |-> cache, result |-> cache[ip], req |-> <<>>]
    ELSE IF ~Truthy(ip) \/ IsPrivate(ip)
    THEN LET v == IF Truthy(ip) THEN PrivateGeo ELSE NA
         IN  [cache |-> Store(cache, ip, v), result |-> v, req |-> <<>>]
    ELSE LET v == Resolve(r)
         IN  [cache |-> Store(cache, ip, v), result |-> v, req |-> <<ip>>]

(* df["ip"].dropna().unique(): the values in order of first appearance *)
RECURSIVE Unique(_)
Unique(s) ==
    IF s = <<>> THEN <<>>
    ELSE LET u == Unique(SubSeq(s, 1, Len(s) - 1))
             x == s[Len(s)]
         IN  IF x = None \/ (\E n \in 1..Len(u) : u[n] = x) THEN u ELSE Append(u, x)

(* One iteration of the lookup pre-pass. *)
IpLookup ==
    /\ pc = "ip_lookups"
    /\ i <= Len(Unique(df_ip))
    /\ \E r \in Responses :
          LET c == lookup_ip(geo_cache, Unique(df_ip)[i], r)
          IN  /\ geo_cache' = c.cache
              /\ requests' = requests \o c.req
              /\ returned' = returned \cup { << Unique(df_ip)[i], c.result >> }
    /\ i' = i + 1
    /\ UNCHANGED << raw, df, pc, lists, columns, views >>

IpLookupsDone ==
    /\ pc = "ip_lookups"
    /\ i > Len(Unique(df_ip))
    /\ pc' = "build_users"
    /\ i' = 1
    /\ UNCHANGED << raw, df, lists, columns, geo, views >>

-----------------------------------------------------------------------------
(* The recipient view. *)

(* s.strip() == "" *)
IsBlank(s) == \A n \in 1..Len(s) : SubSeq(s, n, n) = " "

(* x or "N/A" *)
OrNA(x) == IF Truthy(x) THEN x ELSE "N/A"

(* An entry of a timeline.  The isoformat() text of the row's instant is   *)
(* held as the instant itself.                                             *)
Event(row, ip, g, ua) ==
    [ event |-> row.event, timestamp |-> row.timestamp, ip |-> OrNA(ip),
      location |-> g[1], isp |-> g[2], ua |-> OrNA(ua) ]

(* The append replaced by an insert at the front. *)
AddUserEvent_front(us, email, e) ==
    [k \in DOMAIN us \cup {email} |->
        IF k = email
        THEN [email |-> email,
              events |-> IF email \in DOMAIN us THEN <<e>> \o us[email].events ELSE <<e>>]
        ELSE us[k]]

(* users[email]["email"] = email; users[email]["events"].append(e) *)
AddUserEvent(us, email, e) ==
    [k \in DOMAIN us \cup {email} |->
        IF k = email
        THEN [email |-> email,
              events |-> IF email \in DOMAIN us THEN Append(us[email].events, e) ELSE <<e>>]
        ELSE us[k]]

(* One iteration of the loop that builds users. *)
BuildUser ==
    /\ pc = "build_users"
    /\ i <= Len(df)
    /\ LET row == df[i]
           ip == df_ip[i]
       IN  IF IsBlank(row.email) \/ row.event \notin FunnelEvents
           THEN UNCHANGED << geo, users >>
           ELSE IF ~Truthy(ip)
           THEN /\ users' = AddUserEvent(users, row.email, Event(row, ip, NA, df_user_agent[i]))
                /\ UNCHANGED geo
           ELSE \E r \in Responses :
                   LET c == lookup_ip(geo_cache, ip, r)
                   IN  /\ geo_cache' = c.cache
                       /\ requests' = requests \o c.req
                       /\ returned' = returned \cup { << ip, c.result >> }
                       /\ users' = AddUserEvent(users, row.email,
                                                Event(row, ip, c.result, df_user_agent[i]))
    /\ i' = i + 1
    /\ UNCHANGED << raw, df, pc, lists, columns, stats, fieldnames, credentials_rows,
                    ip_cred_map, ip_activity >>

(* Leaving the loop: users = {email: u ... if len(u["events"]) > 0} *)
BuildUsersDone ==
    /\ pc = "build_users"
    /\ i > Len(df)
    /\ users' = [k \in {e \in DOMAIN users : Len(users[e].events) > 0} |-> users[k]]
    /\ pc' = "statistics"
    /\ i' = 1
    /\ UNCHANGED << raw, df, lists, columns, geo, stats, fieldnames, credentials_rows,
                    ip_cred_map, ip_activity >>

-----------------------------------------------------------------------------
(* Campaign statistics and the credential schema. *)

(* The tally taken over distinct recipients instead of rows. *)
RowsOfKind_distinct(d, kind) ==
    Cardinality({d[n].email : n \in {m \in 1..Len(d) : d[m].event = kind}})

(* len(df[df["event"] == kind]) *)
RowsOfKind(d, kind) == Cardinality({n \in 1..Len(d) : d[n].event = kind})

(* emails_sent_df["email"].nunique() *)
NUniqueSent(d) == Cardinality({d[n].email : n \in {m \in 1..Len(d) : d[m].event = "Email Sent"}})

EventKinds(u) == {u.events[n].event : n \in 1..Len(u.events)}

(* The chain written with three independent ifs. *)
CountOne_ifs(acc, u) ==
    LET ev == {u.events[n].event : n \in 1..Len(u.events)}
        a1 == IF "Submitted Data" \in ev
              THEN [acc EXCEPT !.users_opened_clicked_submitted = @ + 1] ELSE acc
        a2 == IF "Clicked Link" \in ev
              THEN [a1 EXCEPT !.users_opened_and_clicked = @ + 1] ELSE a1
    IN  IF "Email Opened" \in ev
        THEN [a2 EXCEPT !.users_opened_only = @ + 1] ELSE a2

(* The if / elif / elif of the funnel loop, for one recipient. *)
CountOne(acc, u) ==
    LET ev == EventKinds(u)
    IN  IF "Submitted Data" \in ev
        THEN [acc EXCEPT !.users_opened_clicked_submitted = @ + 1]
        ELSE IF "Clicked Link" \in ev
        THEN [acc EXCEPT !.users_opened_and_clicked = @ + 1]
        ELSE IF "Email Opened" \in ev
        THEN [acc EXCEPT !.users_opened_only = @ + 1]
        ELSE acc

(* for u in users.values(): ... *)
RECURSIVE CountUsers(_, _, _)
CountUsers(us, todo, acc) ==
    IF todo = {} THEN acc
    ELSE LET e == CHOOSE x \in todo : TRUE
         IN  CountUsers(us, todo \ {e}, CountOne(acc, us[e]))

(* Code points in increasing order, for the comparison of str values. *)
CodePoints == " -./0123456789:@ABCDEFGHIJKLMNOPQRSTUVWXYZ_abcdefghijklmnopqrstuvwxyz"
Ord(c) == CHOOSE n \in 1..Len(CodePoints) : SubSeq(CodePoints, n, n) = c

(* a < b for two str values *)
RECURSIVE StrLess(_, _)
StrLess(a, b) ==
    IF b = "" THEN FALSE
    ELSE IF a = "" THEN TRUE
    ELSE LET x == Ord(SubSeq(a, 1, 1))
             y == Ord(SubSeq(b, 1, 1))
         IN  IF x # y THEN x < y
             ELSE StrLess(SubSeq(a, 2, Len(a)), SubSeq(b, 2, Len(b)))

(* sorted(S) for a set of str *)
RECURSIVE Sorted(_)
Sorted(S) ==
    IF S = {} THEN <<>>
    ELSE LET m == CHOOSE x \in S : \A y \in S \ {x} : StrLess(x, y)
         IN  <<m>> \o Sorted(S \ {m})

(* {k for c in df["credentials"].dropna() for k, _ in c} *)
FieldNameSet(creds) ==
    UNION { {creds[n].items[m][1] : m \in 1..Len(creds[n].items)} :
            n \in {x \in 1..Len(creds) : ~creds[x].none} }

(* The counts, the funnel loop and fieldnames.  The hourly timeline and    *)
(* the user-agent counter, which feed the charts only, are left out.       *)

Statistics ==
    /\ pc = "statistics"
    /\ stats' = CountUsers(users, DOMAIN users,
                   [ total_targets |-> NUniqueSent(df),
                     sent_count    |-> RowsOfKind(df, "Email Sent"),
                     open_count    |-> RowsOfKind(df, "Email Opened"),
                     click_count   |-> RowsOfKind(df, "Clicked Link"),
                     submit_count  |-> RowsOfKind(df, "Submitted Data"),
                     users_opened_only |-> 0,
                     users_opened_and_clicked |-> 0,
                     users_opened_clicked_submitted |-> 0 ])
    /\ fieldnames' = Sorted(FieldNameSet(df_credentials))
    /\ pc' = "credentials"
    /\ i' = 1
    /\ UNCHANGED << raw, df, lists, columns, geo, users, credentials_rows,
                    ip_cred_map, ip_activity >>

-----------------------------------------------------------------------------
(* The credential table. *)

(* cred_dict = {k: v for k, v in creds}; cred_dict.get(f, "N/A") *)
CredGet(items, f) ==
    IF \E n \in 1..Len(items) : items[n][1] = f
    THEN items[CHOOSE n \in 1..Len(items) :
                  /\ items[n][1] = f
                  /\ \A m \in (n+1)..Len(items) : items[m][1] # f][2]
    ELSE JStr("N/A")

(* The field list built from the submission's own fields only. *)
Fields_own(items, names) ==
    LET Has(f) == \E n \in 1..Len(items) : items[n][1] = f
        own == SelectSeq(names, Has)
    IN  [n \in 1..Len(own) |-> CredGet(items, own[n])]

Fields(items, names) == [n \in 1..Len(names) |-> CredGet(items, names[n])]

CredentialRow(row, ip, location, isp, creds, names) ==
    [ timestamp |-> row.timestamp, ip |-> OrNA(ip), location |-> location,
      isp |-> isp, fields |-> Fields(creds.items, names) ]

(* One iteration of the loop over the rows; the frame is filtered to the   *)
(* Submitted Data rows, and a row without credentials adds nothing.        *)
CredentialsRow ==
    /\ pc = "credentials"
    /\ i <= Len(df)
    /\ LET row == df[i]
           ip == df_ip[i]
           creds == df_credentials[i]
       IN  IF row.event # "Submitted Data" \/ creds.none \/ creds.items = <<>>
           THEN UNCHANGED << geo, credentials_rows >>
           ELSE IF ~Truthy(ip)
           THEN /\ credentials_rows' =
                      Append(credentials_rows,
                             CredentialRow(row, ip, "N/A", "N/A", creds, fieldnames))
                /\ UNCHANGED geo
           ELSE \E r1 \in Responses, r2 \in Responses :
                   LET c1 == lookup_ip(geo_cache, ip, r1)
                       c2 == lookup_ip(c1.cache, ip, r2)
                   IN  /\ geo_cache' = c2.cache
                       /\ requests' = requests \o c1.req \o c2.req
                       /\ returned' = returned \cup { << ip, c1.result >>, << ip, c2.result >> }
                       /\ credentials_rows' =
                             Append(credentials_rows,
                                    CredentialRow(row, ip, c1.result[1], c2.result[2],
                                                  creds, fieldnames))
    /\ i' = i + 1
    /\ UNCHANGED << raw, df, pc, lists, columns, users, stats, fieldnames,
                    ip_cred_map, ip_activity >>

(* for cred in credentials_rows: ip_cred_map[cred["ip"]].append(cred) *)
RECURSIVE GroupByIp(_, _)
GroupByIp(rows, acc) ==
    IF rows = <<>> THEN acc
    ELSE LET cred == Head(rows)
         IN  GroupByIp(Tail(rows),
                IF IsPrivate(cred.ip) THEN acc
                ELSE [k \in DOMAIN acc \cup {cred.ip} |->
                         IF k = cred.ip
                         THEN (IF k \in DOMAIN acc THEN Append(acc[k], cred) ELSE <<cred>>)
                         ELSE acc[k]])

IpCredMap ==
    /\ pc = "credentials"
    /\ i > Len(df)
    /\ ip_cred_map' = GroupByIp(credentials_rows, <<>>)
    /\ pc' = "ip_activity_1"
    /\ i' = 1
    /\ UNCHANGED << raw, df, lists, columns, geo, users, stats, fieldnames,
                    credentials_rows, ip_activity >>

-----------------------------------------------------------------------------
(* The source-address view. *)

(* ip_cred_map.get(ip, []) *)
CredRowsOf(m, ip) == IF ip \in DOMAIN m THEN m[ip] ELSE <<>>

Dossier(ip, g, m) ==
    [ ip |-> ip, location |-> g[1], isp |-> g[2], user_agents |-> {},
      events |-> <<>>, credential_rows |-> CredRowsOf(m, ip) ]

(* if not ip or pd.isna(ip) or ip.startswith(PRIVATE_IP_PREFIXES): continue *)
Skipped(ip) == ~Truthy(ip) \/ IsPrivate(ip)

(* The body of the second loop run by the first as well. *)
Accumulate_both(act, n, withEvent) ==
    LET ip == df_ip[n]
        ua == df_user_agent[n]
        d0 == act[ip]
        d1 == IF Truthy(ua) THEN [d0 EXCEPT !.user_agents = @ \cup {ua}] ELSE d0
    IN  [act EXCEPT ![ip] =
            [d1 EXCEPT !.events =
                Append(@, Event(df[n], ip, << d1.location, d1.isp >>, ua))]]

(* ip_activity after the body of either loop has run for row n, act being  *)
(* ip_activity with the dossier of the row's address in place; the second  *)
(* loop also appends the event.                                            *)
Accumulate(act, n, withEvent) ==
    LET ip == df_ip[n]
        ua == df_user_agent[n]
        d0 == act[ip]
        d1 == IF Truthy(ua) THEN [d0 EXCEPT !.user_agents = @ \cup {ua}] ELSE d0
        d2 == IF withEvent
              THEN [d1 EXCEPT !.events =
                       Append(@, Event(df[n], ip, << d1.location, d1.isp >>, ua))]
              ELSE d1
    IN  [act EXCEPT ![ip] = d2]

(* One iteration of either loop over the rows. *)
ActivityStep(withEvent) ==
    /\ i <= Len(df)
    /\ LET ip == df_ip[i]
       IN  IF Skipped(ip)
           THEN UNCHANGED << geo, ip_activity >>
           ELSE IF ip \in DOMAIN ip_activity
           THEN /\ ip_activity' = Accumulate(ip_activity, i, withEvent)
                /\ UNCHANGED geo
           ELSE \E r \in Responses :
                   LET c == lookup_ip(geo_cache, ip, r)
                       act == [k \in DOMAIN ip_activity \cup {ip} |->
                                  IF k = ip THEN Dossier(ip, c.result, ip_cred_map)
                                  ELSE ip_activity[k]]
                   IN  /\ geo_cache' = c.cache
                       /\ requests' = requests \o c.req
                       /\ returned' = returned \cup { << ip, c.result >> }
                       /\ ip_activity' = Accumulate(act, i, withEvent)
    /\ i' = i + 1
    /\ UNCHANGED << raw, df, pc, lists, columns, users, stats, fieldnames,
                    credentials_rows, ip_cred_map >>

IpActivityFirst ==
    /\ pc = "ip_activity_1"
    /\ ActivityStep(FALSE)

IpActivityFirstDone ==
    /\ pc = "ip_activity_1"
    /\ i > Len(df)
    /\ pc' = "ip_activity_2"
    /\ i' = 1
    /\ UNCHANGED << raw, df, lists, columns, geo, views >>

IpActivitySecond ==
    /\ pc = "ip_activity_2"
    /\ ActivityStep(TRUE)

(* for ip in ip_activity: user_agents = sorted(user_agents) *)
SortUserAgents ==
    /\ pc = "ip_activity_2"
    /\ i > Len(df)
    /\ ip_activity' = [k \in DOMAIN ip_activity |->
                          [ip_activity[k] EXCEPT !.user_agents = Sorted(@)]]
    /\ pc' = "done"
    /\ i' = 1
    /\ UNCHANGED << raw, df, lists, columns, geo, users, stats, fieldnames,
                    credentials_rows, ip_cred_map >>

Next ==
    \/ ReadCsv
    \/ ExtractRow
    \/ AssignColumns
    \/ IpLookup
    \/ IpLookupsDone
    \/ BuildUser
    \/ BuildUsersDone
    \/ Statistics
    \/ CredentialsRow
    \/ IpCredMap
    \/ IpActivityFirst
    \/ IpActivityFirstDone
    \/ IpActivitySecond
    \/ SortUserAgents

Spec == Init /\ [][Next]_vars

-----------------------------------------------------------------------------
(* lookup_ip on its own: any sequence of calls, on any argument, from an   *)
(* empty cache.                                                            *)

(* The largest number of calls of lookup_ip. *)
MaxCalls == 3

TestAddresses ==
    { None, "", "10.0.0.5", "172.16.0.9", "172.31.255.1", "192.168.1.9", "127.0.0.1",
      "169.254.1.1", "::1", "8.8.8.8", "172.32.0.1", "100.64.0.1", "1.10.0.1" }

InitResolver ==
    /\ raw = <<>>
    /\ df = <<>>
    /\ pc = "lookup_ip"
    /\ i = 1
    /\ ip_list = <<>> /\ ua_list = <<>> /\ client_id_list = <<>> /\ submitted_creds = <<>>
    /\ df_ip = <<>> /\ df_user_agent = <<>> /\ df_client_id = <<>> /\ df_credentials = <<>>
    /\ geo_cache = <<>>
    /\ requests = <<>>
    /\ returned = {}
    /\ users = <<>>
    /\ stats = NoStats
    /\ fieldnames = <<>>
    /\ credentials_rows = <<>>
    /\ ip_cred_map = <<>>
    /\ ip_activity = <<>>

(* One call lookup_ip(ip). *)
CallLookupIp ==
    /\ pc = "lookup_ip"
    /\ i <= MaxCalls
    /\ \E ip \in TestAddresses : \E r \in Responses :
          LET c == lookup_ip(geo_cache, ip, r)
          IN  /\ geo_cache' = c.cache
              /\ requests' = requests \o c.req
              /\ returned' = returned \cup { << ip, c.result >> }
    /\ i' = i + 1
    /\ UNCHANGED << raw, df, pc, lists, columns, views >>

NextResolver == CallLookupIp

SpecResolver == InitResolver /\ [][NextResolver]_vars

-----------------------------------------------------------------------------
(* Properties.                                                             *)

(* C1: in one run requests.get is called at most once for each distinct    *)
(* address string, whatever the first attempt returned (a body, a non-200  *)
(* status, an exception), and every call of lookup_ip for an address       *)
(* returns the one value held in geo_cache for it.                         *)
C1_LookupAtMostOnce ==
    /\ \A m \in 1..Len(requests) : \A n \in 1..Len(requests) :
          requests[m] = requests[n] => m = n
    /\ \A x \in returned : \A y \in returned : x[1] = y[1] => x[2] = y[2]
    /\ \A x \in returned : x[1] \in DOMAIN geo_cache /\ geo_cache[x[1]] = x[2]

(* Two rows from 8.8.8.8, the single request failed, and every pass ran. *)
C1_Witness ==
    /\ pc = "done"
    /\ requests = << "8.8.8.8" >>
    /\ "8.8.8.8" \in DOMAIN ip_activity
    /\ Len(ip_activity["8.8.8.8"].events) = 2
    /\ ip_activity["8.8.8.8"].location = "Lookup Failed"
    /\ \E e \in DOMAIN users : \E n \in 1..Len(users[e].events) :
          users[e].events[n].location = "Lookup Failed"

(* C2: the extraction loop leaves exactly one entry per row in each of the *)
(* four lists, whatever the payload, and the run is never aborted.         *)
C2_ParserNeverAborts ==
    /\ pc # "crashed"
    /\ (pc = "extract" /\ i > Len(df)) =>
          /\ Len(ip_list) = Len(df)
          /\ Len(ua_list) = Len(df)
          /\ Len(client_id_list) = Len(df)
          /\ Len(submitted_creds) = Len(df)

(* C3: the three funnel buckets count disjoint sets of recipients, chosen  *)
(* by the precedence Submitted Data > Clicked Link > Email Opened over the *)
(* recipient's qualifying rows; a recipient with none of the three kinds   *)
(* is counted in no bucket.                                                *)
C3_BucketsDisjoint ==
    pc \in {"credentials", "ip_activity_1", "ip_activity_2", "done"} =>
        LET KindsOf(e) == {raw[n].event : n \in {m \in 1..Len(raw) :
                              raw[m].email = e /\ raw[m].event \in FunnelEvents}}
            S == {e \in DOMAIN users : "Submitted Data" \in KindsOf(e)}
            C == {e \in DOMAIN users : "Clicked Link" \in KindsOf(e)} \ S
            O == {e \in DOMAIN users : "Email Opened" \in KindsOf(e)} \ (S \cup C)
            Reached == {e \in DOMAIN users :
                       KindsOf(e) \cap {"Email Opened", "Clicked Link", "Submitted Data"} # {}}
        IN  /\ stats.users_opened_clicked_submitted = Cardinality(S)
            /\ stats.users_opened_and_clicked = Cardinality(C)
            /\ stats.users_opened_only = Cardinality(O)
            /\ stats.users_opened_clicked_submitted + stats.users_opened_and_clicked
                  + stats.users_opened_only = Cardinality(Reached)

(* A recipient with a click and a submission is counted as submitted only. *)
C3_Witness ==
    /\ pc = "done"
    /\ stats.users_opened_clicked_submitted = 1
    /\ stats.users_opened_and_clicked = 0
    /\ \E e \in DOMAIN users :
          {"Clicked Link", "Submitted Data"} \subseteq EventKinds(users[e])

(* C4: fieldnames is the sorted sequence of the distinct field names of    *)
(* all submissions, and every credential row has one value per schema      *)
(* field: the submission's value, or "N/A" where it has no such field.     *)
C4_UniformFields ==
    pc \in {"ip_activity_1", "ip_activity_2", "done"} =>
        LET subs == {n \in 1..Len(df) : ~df_credentials[n].none}
            NamesOf(n) == {df_credentials[n].items[m][1] :
                              m \in 1..Len(df_credentials[n].items)}
            RowOf(ts) == CHOOSE n \in 1..Len(df) : df[n].timestamp = ts
        IN  /\ {fieldnames[n] : n \in 1..Len(fieldnames)} = UNION {NamesOf(n) : n \in subs}
            /\ \A m \in 1..Len(fieldnames) : \A n \in 1..Len(fieldnames) :
                  m < n => StrLess(fieldnames[m], fieldnames[n])
            /\ \A c \in 1..Len(credentials_rows) :
                  LET cr == credentials_rows[c]
                      items == df_credentials[RowOf(cr.timestamp)].items
                  IN  /\ Len(cr.fields) = Len(fieldnames)
                      /\ \A n \in 1..Len(fieldnames) :
                            IF fieldnames[n] \in NamesOf(RowOf(cr.timestamp))
                            THEN \E m \in 1..Len(items) :
                                    items[m] = << fieldnames[n], cr.fields[n] >>
                            ELSE cr.fields[n] = JStr("N/A")
            /\ (Len(raw) = 1 /\ raw[1].event = "Submitted Data"
                  /\ raw[1].details.payload.items =
                        << <<"username", JStr("a")>>, <<"password", JStr("b")>>,
                           <<"client_id", JList(<<"x">>)>> >>) =>
                  /\ fieldnames = << "password", "username" >>
                  /\ Len(credentials_rows) = 1
                  /\ credentials_rows[1].fields = << JStr("b"), JStr("a") >>

(* Two submissions with different fields: one row is filled with "N/A". *)
C4_Witness ==
    /\ pc = "done"
    /\ fieldnames = << "password", "username" >>
    /\ Len(credentials_rows) = 2
    /\ \E c \in 1..2 : credentials_rows[c].fields = << JStr("b"), JStr("N/A") >>

(* C5: the recipient view holds exactly the recipients that have a         *)
(* qualifying row in the input (identity present and not blank, kind one   *)
(* of the four funnel kinds), and a recipient's timeline is its qualifying *)
(* rows, each once, in input order.                                        *)
C5_RecipientView ==
    pc \in {"statistics", "credentials", "ip_activity_1", "ip_activity_2", "done"} =>
        LET Q == {n \in 1..Len(raw) : /\ raw[n].email \notin {None, "", " "}
                                      /\ raw[n].event \in FunnelEvents}
        IN  /\ DOMAIN users = {raw[n].email : n \in Q}
            /\ \A e \in DOMAIN users :
                  LET ev == users[e].events
                      mine == {n \in Q : raw[n].email = e}
                  IN  /\ Len(ev) = Cardinality(mine)
                      /\ \A k \in 1..Len(ev) :
                            /\ ev[k].timestamp \in mine
                            /\ ev[k].event = raw[ev[k].timestamp].event
                            /\ k < Len(ev) => ev[k].timestamp < ev[k+1].timestamp

(* A recipient with two qualifying rows. *)
C5_Witness ==
    /\ pc = "done"
    /\ \E e \in DOMAIN users :
          /\ Len(users[e].events) = 2
          /\ users[e].events[1].event # users[e].events[2].event

C9_FunnelCounts ==
    pc \in {"credentials", "ip_activity_1", "ip_activity_2", "done"} =>
        LET Loaded(kind) == {n \in 1..Len(raw) : raw[n].email # None /\ raw[n].event = kind}
        IN  /\ stats.sent_count = Cardinality(Loaded("Email Sent"))
            /\ stats.open_count = Cardinality(Loaded("Email Opened"))
            /\ stats.click_count = Cardinality(Loaded("Clicked Link"))
            /\ stats.submit_count = Cardinality(Loaded("Submitted Data"))
            /\ stats.total_targets = Cardinality({raw[n].email : n \in Loaded("Email Sent")})
            /\ stats.total_targets <= stats.sent_count
            /\ (/\ Len(raw) = 2
                /\ raw[1].email = raw[2].email
                /\ raw[1].email \notin {None, " "}
                /\ raw[1].event = "Email Sent"
                /\ raw[2].event = "Clicked Link"
                /\ raw[2].details.browser.address = "10.0.0.5"
                /\ pc = "done") =>
                  /\ stats.click_count = 1
                  /\ stats.total_targets = 1
                  /\ stats.users_opened_and_clicked = 1
                  /\ stats.users_opened_only = 0
                  /\ stats.users_opened_clicked_submitted = 0
                  /\ "10.0.0.5" \notin DOMAIN ip_activity

(* The run of the scenario has ended. *)
C9_Witness ==
    /\ pc = "done"
    /\ Len(raw) = 2
    /\ raw[1].email = "a@x.io" /\ raw[1].event = "Email Sent"
    /\ raw[2].email = "a@x.io" /\ raw[2].event = "Clicked Link"
    /\ raw[2].details.browser.address = "10.0.0.5"
    /\ stats.click_count = 1

(* The GeoInfo of every view equals the cached value of the address. *)
ViewsAgreeWithCache ==
    /\ \A e \in DOMAIN users : \A n \in 1..Len(users[e].events) :
          LET x == users[e].events[n]
          IN  x.ip # "N/A" =>
                 x.ip \in DOMAIN geo_cache /\ << x.location, x.isp >> = geo_cache[x.ip]
    /\ \A n \in 1..Len(credentials_rows) :
          LET x == credentials_rows[n]
          IN  x.ip # "N/A" =>
                 x.ip \in DOMAIN geo_cache /\ << x.location, x.isp >> = geo_cache[x.ip]
    /\ \A a \in DOMAIN ip_activity :
          LET d == ip_activity[a]
          IN  /\ a \in DOMAIN geo_cache
              /\ << d.location, d.isp >> = geo_cache[a]
              /\ \A n \in 1..Len(d.events) :
                    << d.events[n].location, d.events[n].isp >> = geo_cache[a]
              /\ \A n \in 1..Len(d.credential_rows) :
                    << d.credential_rows[n].location, d.credential_rows[n].isp >> = geo_cache[a]

(* C10: an entry of geo_cache, once written, is never overwritten or       *)
(* removed, and the GeoInfo attached to an address in the recipient view,  *)
(* the credential rows, the dossier header and the dossier timeline is the *)
(* cached value of that address.                                           *)
C10_OneGeoInfoPerAddress ==
    /\ [][\A a \in DOMAIN geo_cache :
             a \in DOMAIN geo_cache' /\ geo_cache'[a] = geo_cache[a]]_vars
    /\ []ViewsAgreeWithCache

(* One public address appears in all four places. *)
C10_Witness ==
    /\ pc = "done"
    /\ \E a \in DOMAIN ip_activity :
          /\ Len(ip_activity[a].events) >= 1
          /\ Len(ip_activity[a].credential_rows) >= 1
          /\ \E e \in DOMAIN users : \E n \in 1..Len(users[e].events) :
                users[e].events[n].ip = a

=============================================================================
